---- MODULE Spec2Model ----
(***************************************************************************)
(* A model of the URL record of rust-url (src/src/lib.rs): the             *)
(* serialization with its byte offsets, the accessors that slice it, and   *)
(* the setters that splice it.                                             *)
(*                                                                         *)
(* A string is a sequence of one-character strings; Option<T> is a         *)
(* sequence of length 0 (None) or 1 (Some).  Offsets are u32.  A setter is *)
(* an operator from the record and its arguments to the record it leaves   *)
(* and its outcome "Ok", "Err" or "Panic"; after a panic the model keeps   *)
(* the record the call started from and takes no further step.             *)
(***************************************************************************)
EXTENDS Integers, Sequences, FiniteSets, TLC

VARIABLES
    url,               \* the Url record
    prev,              \* the record before the last setter call
    op,                \* the last setter call: [name, arg]
    res,               \* its outcome: "New" | "Ok" | "Err" | "Panic"
    steps,             \* setter calls made so far
    limit,             \* setter calls explored at most
    on_scenario,       \* the calls so far are the first calls of ScenarioCalls
    debug_assertions   \* the build: TRUE checks debug_assert! and overflow

vars == <<url, prev, op, res, steps, limit, on_scenario, debug_assertions>>

----------------------------------------------------------------------------
(* Bounds *)

MaxSteps == 2
ScenarioSteps == 3
HostlessSteps == 3

----------------------------------------------------------------------------
(* Option, strings, u32 *)

None == <<>>
Some(x) == <<x>>
IsSome(o) == Len(o) = 1
Get(o) == o[1]

\* A u32 is held as an integer of small magnitude: a negative i stands for the
\* wrapped value 2^32 + i, so that wrapping arithmetic is integer arithmetic
\* and only comparisons and range checks need the sign.
ULt(a, b) == IF (a < 0) = (b < 0) THEN a < b ELSE b < 0
ULe(a, b) == a = b \/ ULt(a, b)

\* `*index -= old; *index += new` in a release build (wrapping)
WrapAdjust(index, old, new) == index - old + new
\* the same in a build with overflow checks: the subtraction or the addition panics
AdjustOverflows(index, old, new) ==
    ULt(index, old) \/ (index - old < 0 /\ index - old + new >= 0)

MapOpt(o, old, new) == IF IsSome(o) THEN Some(WrapAdjust(Get(o), old, new)) ELSE None
OptOverflows(o, old, new) == IsSome(o) /\ AdjustOverflows(Get(o), old, new)

StartsWith(s, p) == Len(s) >= Len(p) /\ SubSeq(s, 1, Len(p)) = p
EndsWith(s, p) == Len(s) >= Len(p) /\ SubSeq(s, Len(s) - Len(p) + 1, Len(s)) = p

\* &s[a..b] is in range
SliceOk(s, a, b) == a >= 0 /\ a <= b /\ b <= Len(s)
\* &s[a..b]
Slice(s, a, b) == SubSeq(s, a + 1, b)
\* &s[a..]
SliceFrom(s, a) == SubSeq(s, a + 1, Len(s))
\* String::truncate(n): no effect when n is past the end
Truncate(s, n) == IF n < 0 \/ n >= Len(s) THEN s ELSE SubSeq(s, 1, n)
\* Vec::drain(a..b) is in range
DrainOk(s, a, b) == a >= 0 /\ a <= b /\ b <= Len(s)
\* Vec::drain(a..b), dropped at once: the bytes a..b are removed
Drain(s, a, b) == SubSeq(s, 1, a) \o SubSeq(s, b + 1, Len(s))

\* the last index of c in s (0-based), or -1
RECURSIVE RFindFrom(_, _, _)
RFindFrom(s, c, i) ==
    IF i = 0 THEN 0 - 1
    ELSE IF s[i] = c THEN i - 1
    ELSE RFindFrom(s, c, i - 1)
rfind(s, c) == RFindFrom(s, c, Len(s))

Digits == <<"0", "1", "2", "3", "4", "5", "6", "7", "8", "9">>
\* write!("{}", n) for an unsigned n
RECURSIVE Decimal(_)
Decimal(n) ==
    IF n < 10 THEN <<Digits[n + 1]>>
    ELSE Decimal(n \div 10) \o <<Digits[(n % 10) + 1]>>

UpperCase == <<"A", "B", "C", "D", "E", "F", "G", "H", "I", "J", "K", "L", "M",
               "N", "O", "P", "Q", "R", "S", "T", "U", "V", "W", "X", "Y", "Z">>
LowerCase == <<"a", "b", "c", "d", "e", "f", "g", "h", "i", "j", "k", "l", "m",
               "n", "o", "p", "q", "r", "s", "t", "u", "v", "w", "x", "y", "z">>
IsUpper(c) == \E i \in 1..26 : UpperCase[i] = c
IsLower(c) == \E i \in 1..26 : LowerCase[i] = c
IsDigit(c) == \E i \in 1..10 : Digits[i] = c
to_ascii_lowercase(c) ==
    IF IsUpper(c) THEN LowerCase[CHOOSE i \in 1..26 : UpperCase[i] = c] ELSE c
RECURSIVE Lower(_)
Lower(s) == IF s = <<>> THEN <<>> ELSE <<to_ascii_lowercase(Head(s))>> \o Lower(Tail(s))

----------------------------------------------------------------------------
(* The record and its accessors *)

\* The host tag: HostInternal::{None, Domain, Ipv4(address), Ipv6(address)}
HostNone == [tag |-> "None", addr |-> <<>>]
HostDomain == [tag |-> "Domain", addr |-> <<>>]
HostIpv4(a) == [tag |-> "Ipv4", addr |-> a]
HostIpv6(a) == [tag |-> "Ipv6", addr |-> a]

len(u) == Len(u.serialization)

\* self.serialization.as_bytes()[i as usize] is in range
byte_ok(u, i) == i >= 0 /\ i < len(u)
byte_at(u, i) == u.serialization[i + 1]
\* the byte at i, read as "" past the end (for predicates that must not fail)
byte_or_none(u, i) == IF byte_ok(u, i) THEN byte_at(u, i) ELSE ""

as_str(u) == u.serialization

scheme_panics(u) == ~SliceOk(u.serialization, 0, u.scheme_end)
scheme(u) == Slice(u.serialization, 0, u.scheme_end)

has_host_panics(u, dbg) ==
    \/ dbg /\ byte_or_none(u, u.scheme_end) # ":"
    \/ ~SliceOk(u.serialization, u.scheme_end + 1, len(u))
has_host(u) == StartsWith(SliceFrom(u.serialization, u.scheme_end + 1), <<"/", "/">>)

non_relative_panics(u) == ~byte_ok(u, u.path_start)
non_relative(u) == byte_at(u, u.path_start) # "/"

username_panics(u, dbg) ==
    \/ has_host_panics(u, dbg)
    \/ has_host(u) /\ ~SliceOk(u.serialization, u.scheme_end + 3, u.username_end)
username(u) ==
    IF has_host(u) THEN Slice(u.serialization, u.scheme_end + 3, u.username_end)
    ELSE <<>>

password_panics(u, dbg) ==
    \/ ~byte_ok(u, u.username_end)
    \/ /\ byte_at(u, u.username_end) = ":"
       /\ \/ dbg /\ (has_host_panics(u, dbg) \/ ~has_host(u))
          \/ dbg /\ ~(u.host_start < u.host_end)
          \/ dbg /\ byte_or_none(u, u.host_start - 1) # "@"
          \/ ~SliceOk(u.serialization, u.username_end + 1, u.host_start - 1)
password(u) ==
    IF byte_at(u, u.username_end) = ":"
    THEN Some(Slice(u.serialization, u.username_end + 1, u.host_start - 1))
    ELSE None

host_str_panics(u, dbg) ==
    \/ has_host_panics(u, dbg)
    \/ has_host(u) /\ ~SliceOk(u.serialization, u.host_start, u.host_end)
host_str(u) ==
    IF has_host(u) THEN Some(Slice(u.serialization, u.host_start, u.host_end))
    ELSE None

host_panics(u) ==
    u.host.tag = "Domain" /\ ~SliceOk(u.serialization, u.host_start, u.host_end)
host(u) ==
    CASE u.host.tag = "None" -> None
      [] u.host.tag = "Domain" ->
            Some([tag |-> "Domain",
                  addr |-> Slice(u.serialization, u.host_start, u.host_end)])
      [] OTHER -> Some(u.host)

port(u) == u.port

\* the end of the path: the next component's start, or the end of the string
path_end(u) ==
    IF IsSome(u.query_start) THEN Get(u.query_start)
    ELSE IF IsSome(u.fragment_start) THEN Get(u.fragment_start)
    ELSE len(u)
path_panics(u) == ~SliceOk(u.serialization, u.path_start, path_end(u))
path(u) == Slice(u.serialization, u.path_start, path_end(u))

\* the segments of a path "/a/b": the pieces between the slashes of s
RECURSIVE Split(_, _)
Split(s, c) ==
    IF \A i \in 1..Len(s) : s[i] # c THEN <<s>>
    ELSE LET i == CHOOSE k \in 1..Len(s) :
                      s[k] = c /\ \A j \in 1..(k - 1) : s[j] # c
         IN <<SubSeq(s, 1, i - 1)>> \o Split(SubSeq(s, i + 1, Len(s)), c)
path_segments(u) ==
    IF StartsWith(path(u), <<"/">>) THEN Some(Split(Tail(path(u)), "/")) ELSE None

query_end(u) == IF IsSome(u.fragment_start) THEN Get(u.fragment_start) ELSE len(u)
query_panics(u, dbg) ==
    /\ IsSome(u.query_start)
    /\ \/ dbg /\ byte_or_none(u, Get(u.query_start)) # "?"
       \/ ~SliceOk(u.serialization, Get(u.query_start) + 1, query_end(u))
query(u) ==
    IF IsSome(u.query_start)
    THEN Some(Slice(u.serialization, Get(u.query_start) + 1, query_end(u)))
    ELSE None

fragment_panics(u, dbg) ==
    /\ IsSome(u.fragment_start)
    /\ \/ dbg /\ byte_or_none(u, Get(u.fragment_start)) # "#"
       \/ ~SliceOk(u.serialization, Get(u.fragment_start) + 1, len(u))
fragment(u) ==
    IF IsSome(u.fragment_start)
    THEN Some(SliceFrom(u.serialization, Get(u.fragment_start) + 1))
    ELSE None

\* some public accessor panics on this record
AccessorPanics(u, dbg) ==
    \/ scheme_panics(u)
    \/ has_host_panics(u, dbg)
    \/ non_relative_panics(u)
    \/ username_panics(u, dbg)
    \/ password_panics(u, dbg)
    \/ host_str_panics(u, dbg)
    \/ host_panics(u)
    \/ path_panics(u)
    \/ query_panics(u, dbg)
    \/ fragment_panics(u, dbg)


----------------------------------------------------------------------------
(* Percent-encoding and the parser's entry points used by the setters.      *)
(* Their code (percent_encoding, parser, host) is outside lib.rs: they are  *)
(* modelled from the specification, over the characters the model uses:     *)
(* letters, digits and  / : @ ? # . [ ] % and space.                        *)

SIMPLE_ENCODE_SET == {" ", "#", "?"}
DEFAULT_ENCODE_SET == SIMPLE_ENCODE_SET
USERINFO_ENCODE_SET == DEFAULT_ENCODE_SET \cup {"/", ":", "@", "[", "]"}
PATH_SEGMENT_ENCODE_SET == DEFAULT_ENCODE_SET \cup {"/", "%", ":", "@", "[", "]"}
\* the specification names these two sets without listing them; of the
\* model's characters the URL Standard puts these in them
QUERY_ENCODE_SET == {" ", "#"}
FRAGMENT_ENCODE_SET == {" "}

HexPair(c) ==
    CASE c = " " -> <<"2", "0">>
      [] c = "#" -> <<"2", "3">>
      [] c = "%" -> <<"2", "5">>
      [] c = "/" -> <<"2", "F">>
      [] c = ":" -> <<"3", "A">>
      [] c = "?" -> <<"3", "F">>
      [] c = "@" -> <<"4", "0">>
      [] c = "[" -> <<"5", "B">>
      [] c = "]" -> <<"5", "D">>

RECURSIVE utf8_percent_encode(_, _)
utf8_percent_encode(input, set) ==
    IF input = <<>> THEN <<>>
    ELSE (IF Head(input) \in set THEN <<"%">> \o HexPair(Head(input))
          ELSE <<Head(input)>>)
         \o utf8_percent_encode(Tail(input), set)

\* Parser::parse_fragment: the serialization with the encoded fragment appended
parse_fragment(ser, input) == ser \o utf8_percent_encode(input, FRAGMENT_ENCODE_SET)

\* Parser::parse_query (setter context: the whole input is the query)
parse_query(ser, input) == ser \o utf8_percent_encode(input, QUERY_ENCODE_SET)

\* Parser::parse_non_relative_path (setter context): the opaque path, verbatim
parse_non_relative_path(ser, input) ==
    ser \o utf8_percent_encode(input, SIMPLE_ENCODE_SET)

SpecialSchemes ==
    { <<"f", "t", "p">>, <<"f", "i", "l", "e">>, <<"g", "o", "p", "h", "e", "r">>,
      <<"h", "t", "t", "p">>, <<"h", "t", "t", "p", "s">>, <<"w", "s">>,
      <<"w", "s", "s">> }
is_special(sch) == sch \in SpecialSchemes

\* parser::default_port
default_port(sch) ==
    CASE sch = <<"f", "t", "p">> -> Some(21)
      [] sch = <<"g", "o", "p", "h", "e", "r">> -> Some(70)
      [] sch = <<"h", "t", "t", "p">> -> Some(80)
      [] sch = <<"h", "t", "t", "p", "s">> -> Some(443)
      [] sch = <<"w", "s">> -> Some(80)
      [] sch = <<"w", "s", "s">> -> Some(443)
      [] OTHER -> None

\* Parser::pop_path: drop the last segment of ser[path_start..], keeping its '/'
pop_path(ser, path_start) ==
    IF Len(ser) > path_start
    THEN Truncate(ser, path_start + rfind(SliceFrom(ser, path_start), "/") + 1)
    ELSE ser

\* the index (1-based) of the first segment separator of input, or 0
FirstSeparator(input, segment_setter) ==
    IF segment_setter \/ \A i \in 1..Len(input) : input[i] # "/" THEN 0
    ELSE CHOOSE k \in 1..Len(input) :
             input[k] = "/" /\ \A j \in 1..(k - 1) : input[j] # "/"

\* Parser::parse_path: ser ends with '/'; the segments of input are appended,
\* "." skipped and ".." popping the segment before it.  In the context
\* PathSegmentSetter the input is one segment and '/' is encoded.
RECURSIVE parse_path(_, _, _, _)
parse_path(ser, path_start, input, segment_setter) ==
    LET sep == FirstSeparator(input, segment_setter)
        ends_with_slash == sep > 0
        raw == IF ends_with_slash THEN SubSeq(input, 1, sep - 1) ELSE input
        rest == IF ends_with_slash THEN SubSeq(input, sep + 1, Len(input)) ELSE <<>>
        segment_start == Len(ser)
        segment == utf8_percent_encode(raw,
                       IF segment_setter THEN PATH_SEGMENT_ENCODE_SET
                       ELSE DEFAULT_ENCODE_SET)
        popped == pop_path(Truncate(ser, segment_start - 1), path_start)
        out == CASE segment = <<".", ".">> ->
                        IF EndsWith(SliceFrom(popped, path_start), <<"/">>)
                        THEN popped ELSE popped \o <<"/">>
                 [] segment = <<".">> -> ser
                 [] OTHER ->
                        IF ends_with_slash THEN ser \o segment \o <<"/">>
                        ELSE ser \o segment
    IN IF ends_with_slash THEN parse_path(out, path_start, rest, segment_setter)
       ELSE out

\* Parser::parse_path_start: one leading '/' of the input is the path's own
parse_path_start(ser, input) ==
    parse_path(ser \o <<"/">>, Len(ser),
               IF StartsWith(input, <<"/">>) THEN Tail(input) ELSE input, FALSE)

IsSchemeChar(c) == IsLower(c) \/ IsUpper(c) \/ IsDigit(c) \/ c \in {"+", "-", "."}

\* the index (1-based) of the first ':' of input, or Len(input) + 1
SchemeStop(input) ==
    IF \A i \in 1..Len(input) : input[i] # ":" THEN Len(input) + 1
    ELSE CHOOSE k \in 1..Len(input) :
             input[k] = ":" /\ \A j \in 1..(k - 1) : input[j] # ":"

\* Parser::parse_scheme (setter context): the lower-cased scheme and the input
\* left after its ':', or an error
parse_scheme(input) ==
    LET stop == SchemeStop(input)
        name == SubSeq(input, 1, stop - 1)
    IN IF /\ input # <<>>
          /\ IsLower(Head(input)) \/ IsUpper(Head(input))
          /\ \A i \in 1..Len(name) : IsSchemeChar(name[i])
       THEN [ok |-> TRUE,
             serialization |-> Lower(name),
             remaining |-> SubSeq(input, stop + 1, Len(input))]
       ELSE [ok |-> FALSE, serialization |-> <<>>, remaining |-> <<>>]

ForbiddenHostChars == {" ", "#", "%", "/", ":", "?", "@", "[", "]"}

\* Host::parse for a domain: an error for an empty host or a forbidden code
\* point, else the lower-cased domain
host_parse(input) ==
    IF input = <<>> \/ \E i \in 1..Len(input) : input[i] \in ForbiddenHostChars
    THEN [ok |-> FALSE, tag |-> HostNone, text |-> <<>>]
    ELSE [ok |-> TRUE, tag |-> HostDomain,
          text |-> Lower(input)]

\* Display for Ipv4Addr: the four octets in decimal
ipv4_text(a) ==
    Decimal(a[1]) \o <<".">> \o Decimal(a[2]) \o <<".">> \o Decimal(a[3])
        \o <<".">> \o Decimal(a[4])

\* Display for Host::Ipv6, for the addresses ::n with n < 10 (n = 0 is "::")
ipv6_text(a) == <<"[", ":", ":">> \o (IF a = 0 THEN <<>> ELSE Decimal(a)) \o <<"]">>


----------------------------------------------------------------------------
(* The setters.  Each yields [u, r]: the record it leaves and its outcome.  *)

Ok(u) == [u |-> u, r |-> "Ok"]
Err(u) == [u |-> u, r |-> "Err"]
Panic(u) == [u |-> u, r |-> "Panic"]

\* `*index -= offset` on an optional offset
SubOpt(o, offset) == MapOpt(o, offset, 0)

set_fragment(u, frag, dbg) ==
    LET fs == u.fragment_start
        s1 == IF IsSome(fs) THEN Truncate(u.serialization, Get(fs))
              ELSE u.serialization
    IN IF IsSome(fs) /\ dbg /\ byte_or_none(u, Get(fs)) # "#" THEN Panic(u)
       ELSE IF IsSome(frag)
       THEN Ok([u EXCEPT !.fragment_start = Some(Len(s1)),
                         !.serialization = parse_fragment(s1 \o <<"#">>, Get(frag))])
       ELSE Ok([u EXCEPT !.fragment_start = None, !.serialization = s1])

set_query(u, q, dbg) ==
    LET fs == u.fragment_start
        qs == u.query_start
        \* Stash any fragment
        stash == IF IsSome(fs) THEN SliceFrom(u.serialization, Get(fs)) ELSE <<>>
        s1 == IF IsSome(fs) THEN Truncate(u.serialization, Get(fs))
              ELSE u.serialization
        \* Remove any previous query
        s2 == IF IsSome(qs) THEN Truncate(s1, Get(qs)) ELSE s1
        \* Write the new one
        qs3 == IF IsSome(q) THEN Some(Len(s2)) ELSE qs
        s3 == IF IsSome(q) THEN parse_query(s2 \o <<"?">>, Get(q)) ELSE s2
    IN IF IsSome(fs) /\ ~SliceOk(u.serialization, Get(fs), len(u)) THEN Panic(u)
       ELSE IF IsSome(qs) /\ dbg
               /\ ~(Get(qs) >= 0 /\ Get(qs) < Len(s1) /\ s1[Get(qs) + 1] = "?")
       THEN Panic(u)
       ELSE IF IsSome(fs) /\ dbg /\ ~StartsWith(stash, <<"#">>) THEN Panic(u)
       ELSE Ok([u EXCEPT !.query_start = qs3,
                         \* Restore the fragment, if any
                         !.fragment_start = IF IsSome(fs) THEN Some(Len(s3)) ELSE fs,
                         !.serialization = s3 \o stash])

set_path(u, new_path, dbg) ==
    LET has_after == IsSome(u.query_start) \/ IsSome(u.fragment_start)
        old_after_path_pos == path_end(u)
        after_path == IF has_after THEN SliceFrom(u.serialization, old_after_path_pos)
                      ELSE <<>>
        s1 == Truncate(u.serialization, u.path_start)
        s2 == IF non_relative(u)
              THEN IF StartsWith(new_path, <<"/">>)
                   THEN parse_non_relative_path(s1 \o <<"%", "2", "F">>, Tail(new_path))
                   ELSE parse_non_relative_path(s1, new_path)
              ELSE parse_path_start(s1, new_path)
        new_after_path_pos == Len(s2)
    IN IF has_after /\ ~SliceOk(u.serialization, old_after_path_pos, len(u))
       THEN Panic(u)
       ELSE IF non_relative_panics(u) \/ scheme_panics(u) THEN Panic(u)
       ELSE IF dbg /\ (\/ OptOverflows(u.query_start, old_after_path_pos,
                                       new_after_path_pos)
                       \/ OptOverflows(u.fragment_start, old_after_path_pos,
                                       new_after_path_pos))
       THEN Panic(u)
       ELSE Ok([u EXCEPT
                  !.query_start = MapOpt(@, old_after_path_pos, new_after_path_pos),
                  !.fragment_start = MapOpt(@, old_after_path_pos, new_after_path_pos),
                  !.serialization = s2 \o after_path])

pop_path_segment(u, dbg) ==
    LET last_slash == rfind(path(u), "/")
        path_len == Len(path(u))
        from == last_slash + u.path_start
        to == path_len + u.path_start
        offset == to - from
    IN IF non_relative_panics(u) THEN Panic(u)
       ELSE IF non_relative(u) THEN Err(u)
       ELSE IF path_panics(u) THEN Panic(u)
       \* path.rfind('/').unwrap()
       ELSE IF last_slash < 0 THEN Panic(u)
       ELSE IF last_slash > 0
       THEN IF ~DrainOk(u.serialization, from, to) THEN Panic(u)
            ELSE IF dbg /\ (\/ OptOverflows(u.query_start, offset, 0)
                            \/ OptOverflows(u.fragment_start, offset, 0))
            THEN Panic(u)
            ELSE Ok([u EXCEPT !.serialization = Drain(@, from, to),
                              !.query_start = SubOpt(@, offset),
                              !.fragment_start = SubOpt(@, offset)])
       ELSE Ok(u)

push_path_segment(u, segment, dbg) ==
    LET has_after == IsSome(u.query_start) \/ IsSome(u.fragment_start)
        i == path_end(u)
        after_path == IF has_after THEN SliceFrom(u.serialization, i) ELSE <<>>
        s1 == IF has_after THEN Truncate(u.serialization, i) ELSE u.serialization
        s2 == parse_path(s1 \o <<"/">>, u.path_start, segment, TRUE)
        offset == Len(s2) - u.path_start
    IN IF non_relative_panics(u) THEN Panic(u)
       ELSE IF non_relative(u) THEN Err(u)
       ELSE IF has_after /\ ~SliceOk(u.serialization, i, len(u)) THEN Panic(u)
       ELSE IF scheme_panics(u) THEN Panic(u)
       ELSE IF dbg /\ (\/ ULt(Len(s2), u.path_start)
                       \/ OptOverflows(u.query_start, 0, offset)
                       \/ OptOverflows(u.fragment_start, 0, offset))
       THEN Panic(u)
       ELSE Ok([u EXCEPT !.query_start = MapOpt(@, 0, offset),
                         !.fragment_start = MapOpt(@, 0, offset),
                         !.serialization = s2 \o after_path])


set_port_internal(u, new_port, dbg) ==
    LET offset == u.path_start - u.host_end
        path_and_after == SliceFrom(u.serialization, u.path_start)
        s1 == Truncate(u.serialization, u.host_end) \o <<":">> \o Decimal(Get(new_port))
        old_path_start == u.path_start
        new_path_start == Len(s1)
    IN CASE ~IsSome(u.port) /\ ~IsSome(new_port) -> Ok(u)
         [] IsSome(u.port) /\ ~IsSome(new_port) ->
              IF ~DrainOk(u.serialization, u.host_end, u.path_start) THEN Panic(u)
              ELSE IF dbg /\ (\/ OptOverflows(u.query_start, offset, 0)
                              \/ OptOverflows(u.fragment_start, offset, 0))
              THEN Panic(u)
              ELSE Ok([u EXCEPT
                         !.serialization = Drain(@, u.host_end, u.path_start),
                         !.path_start = u.host_end,
                         !.query_start = SubOpt(@, offset),
                         !.fragment_start = SubOpt(@, offset)])
         [] IsSome(u.port) /\ IsSome(new_port) /\ u.port = new_port -> Ok(u)
         [] OTHER ->
              IF ~SliceOk(u.serialization, u.path_start, len(u)) THEN Panic(u)
              ELSE IF dbg /\ (\/ OptOverflows(u.query_start, old_path_start,
                                              new_path_start)
                              \/ OptOverflows(u.fragment_start, old_path_start,
                                              new_path_start))
              THEN Panic(u)
              ELSE Ok([u EXCEPT
                         !.serialization = s1 \o path_and_after,
                         !.path_start = new_path_start,
                         !.query_start = MapOpt(@, old_path_start, new_path_start),
                         !.fragment_start = MapOpt(@, old_path_start, new_path_start)])

set_port(u, new_port, dbg) ==
    IF has_host_panics(u, dbg) THEN Panic(u)
    ELSE IF ~has_host(u) THEN Err(u)
    ELSE IF scheme_panics(u) THEN Panic(u)
    ELSE IF scheme(u) = <<"f", "i", "l", "e">> THEN Err(u)
    ELSE set_port_internal(u,
             IF IsSome(new_port) /\ new_port = default_port(scheme(u)) THEN None
             ELSE new_port, dbg)

\* host_text is the Display of the host, host_tag its HostInternal; the port is
\* left unchanged (opt_new_port is None in every call of lib.rs)
set_host_internal(u, host_text, host_tag, dbg) ==
    LET old_suffix_pos == u.host_end
        suffix == SliceFrom(u.serialization, old_suffix_pos)
        s1 == Truncate(u.serialization, u.host_start)
        t == [u EXCEPT !.serialization = s1]
        no_host == ~has_host(t)
        s2 == IF no_host THEN s1 \o <<"/", "/">> ELSE s1
        s3 == s2 \o host_text
        new_suffix_pos == Len(s3)
    IN IF ~SliceOk(u.serialization, old_suffix_pos, len(u)) THEN Panic(u)
       ELSE IF has_host_panics(t, dbg) THEN Panic(u)
       ELSE IF no_host /\ dbg
               /\ \/ ~SliceOk(s1, u.scheme_end, u.host_start)
                  \/ Slice(s1, u.scheme_end, u.host_start) # <<":">>
                  \/ u.username_end # u.host_start
       THEN Panic(u)
       ELSE IF dbg /\ (\/ AdjustOverflows(u.path_start, old_suffix_pos, new_suffix_pos)
                       \/ OptOverflows(u.query_start, old_suffix_pos, new_suffix_pos)
                       \/ OptOverflows(u.fragment_start, old_suffix_pos,
                                       new_suffix_pos))
       THEN Panic(u)
       ELSE Ok([u EXCEPT
                  !.serialization = s3 \o suffix,
                  !.username_end = IF no_host THEN @ + 2 ELSE @,
                  !.host_start = IF no_host THEN @ + 2 ELSE @,
                  !.host_end = Len(s3),
                  !.host = host_tag,
                  !.path_start = WrapAdjust(@, old_suffix_pos, new_suffix_pos),
                  !.query_start = MapOpt(@, old_suffix_pos, new_suffix_pos),
                  !.fragment_start = MapOpt(@, old_suffix_pos, new_suffix_pos)])

\* set_host(None) on a record that has a host
remove_host(u, dbg) ==
    LET new_path_start == u.scheme_end + 1
        offset == u.path_start - new_path_start
    IN \* assert!, in every build
       IF byte_or_none(u, u.scheme_end) # ":" \/ byte_or_none(u, u.path_start) # "/"
       THEN Panic(u)
       ELSE IF ~DrainOk(u.serialization, u.path_start, new_path_start) THEN Panic(u)
       ELSE IF dbg /\ (\/ ULt(u.path_start, new_path_start)
                       \/ OptOverflows(u.query_start, offset, 0)
                       \/ OptOverflows(u.fragment_start, offset, 0))
       THEN Panic(u)
       ELSE Ok([u EXCEPT
                  !.serialization = Drain(@, u.path_start, new_path_start),
                  !.path_start = new_path_start,
                  !.username_end = new_path_start,
                  !.host_start = new_path_start,
                  !.host_end = new_path_start,
                  !.port = None,
                  !.query_start = SubOpt(@, offset),
                  !.fragment_start = SubOpt(@, offset)])

set_host(u, new_host, dbg) ==
    IF non_relative_panics(u) THEN Panic(u)
    ELSE IF non_relative(u) THEN Err(u)
    ELSE IF IsSome(new_host)
    THEN IF ~host_parse(Get(new_host)).ok THEN Err(u)
         ELSE set_host_internal(u, host_parse(Get(new_host)).text,
                                host_parse(Get(new_host)).tag, dbg)
    ELSE IF has_host_panics(u, dbg) THEN Panic(u)
    ELSE IF has_host(u) THEN remove_host(u, dbg)
    ELSE Ok(u)

\* set_ipv4_host without its check for a non-relative URL
set_ipv4_host_unchecked(u, address, dbg) ==
    set_host_internal(u, ipv4_text(address), HostIpv4(address), dbg)

set_ipv4_host(u, address, dbg) ==
    IF non_relative_panics(u) THEN Panic(u)
    ELSE IF non_relative(u) THEN Err(u)
    ELSE set_host_internal(u, ipv4_text(address), HostIpv4(address), dbg)

set_ipv6_host(u, address, dbg) ==
    IF non_relative_panics(u) THEN Panic(u)
    ELSE IF non_relative(u) THEN Err(u)
    ELSE set_host_internal(u, ipv6_text(address), HostIpv6(address), dbg)


set_password(u, new_password, dbg) ==
    LET \* Some(password)
        host_and_after == SliceFrom(u.serialization, u.host_start)
        s1 == Truncate(u.serialization, u.username_end) \o <<":">>
              \o utf8_percent_encode(Get(new_password), USERINFO_ENCODE_SET) \o <<"@">>
        old_host_start == u.host_start
        new_host_start == Len(s1)
        \* None, and there is a password to remove
        username_start == u.scheme_end + 3
        empty_username == username_start = u.username_end
        start == u.username_end
        end == IF empty_username THEN u.host_start ELSE u.host_start - 1
        offset == end - start
    IN IF has_host_panics(u, dbg) THEN Panic(u)
       ELSE IF ~has_host(u) THEN Err(u)
       ELSE IF IsSome(new_password)
       THEN IF ~SliceOk(u.serialization, u.host_start, len(u)) THEN Panic(u)
            ELSE IF dbg /\ (\/ AdjustOverflows(u.host_end, old_host_start, new_host_start)
                            \/ AdjustOverflows(u.path_start, old_host_start,
                                               new_host_start)
                            \/ OptOverflows(u.query_start, old_host_start,
                                            new_host_start)
                            \/ OptOverflows(u.fragment_start, old_host_start,
                                            new_host_start))
            THEN Panic(u)
            ELSE Ok([u EXCEPT
                       !.serialization = s1 \o host_and_after,
                       !.host_start = new_host_start,
                       !.host_end = WrapAdjust(@, old_host_start, new_host_start),
                       !.path_start = WrapAdjust(@, old_host_start, new_host_start),
                       !.query_start = MapOpt(@, old_host_start, new_host_start),
                       !.fragment_start = MapOpt(@, old_host_start, new_host_start)])
       ELSE IF ~byte_ok(u, u.username_end) THEN Panic(u)
       ELSE IF byte_at(u, u.username_end) = ":"
       THEN IF ~byte_ok(u, u.host_start - 1) THEN Panic(u)
            ELSE IF dbg /\ byte_at(u, u.host_start - 1) # "@" THEN Panic(u)
            ELSE IF ~DrainOk(u.serialization, start, end) THEN Panic(u)
            ELSE IF dbg /\ (\/ ULt(u.host_start, offset)
                            \/ ULt(u.host_end, offset)
                            \/ OptOverflows(u.query_start, offset, 0)
                            \/ OptOverflows(u.fragment_start, offset, 0))
            THEN Panic(u)
            ELSE Ok([u EXCEPT
                       !.serialization = Drain(@, start, end),
                       !.host_start = @ - offset,
                       !.host_end = @ - offset,
                       !.query_start = SubOpt(@, offset),
                       !.fragment_start = SubOpt(@, offset)])
       ELSE Ok(u)

set_username(u, new_username, dbg) ==
    LET username_start == u.scheme_end + 3
        after_username == SliceFrom(u.serialization, u.username_end)
        s1 == Truncate(u.serialization, username_start)
              \o utf8_percent_encode(new_username, USERINFO_ENCODE_SET)
        old_username_end == u.username_end
        new_username_end == Len(s1)
        s2 == IF after_username # <<>> /\ Head(after_username) \in {"@", ":"}
              THEN s1 ELSE s1 \o <<"@">>
    IN IF has_host_panics(u, dbg) THEN Panic(u)
       ELSE IF ~has_host(u) THEN Err(u)
       ELSE IF ~SliceOk(u.serialization, username_start, u.username_end) THEN Panic(u)
       ELSE IF Slice(u.serialization, username_start, u.username_end) = new_username
       THEN Ok(u)
       ELSE IF dbg /\ (\/ AdjustOverflows(u.host_start, old_username_end,
                                          new_username_end)
                       \/ AdjustOverflows(u.host_end, old_username_end, new_username_end)
                       \/ AdjustOverflows(u.path_start, old_username_end,
                                          new_username_end)
                       \/ OptOverflows(u.query_start, old_username_end,
                                       new_username_end)
                       \/ OptOverflows(u.fragment_start, old_username_end,
                                       new_username_end))
       THEN Panic(u)
       ELSE Ok([u EXCEPT
                  !.serialization = s2 \o after_username,
                  !.username_end = new_username_end,
                  !.host_start = WrapAdjust(@, old_username_end, new_username_end),
                  !.host_end = WrapAdjust(@, old_username_end, new_username_end),
                  !.path_start = WrapAdjust(@, old_username_end, new_username_end),
                  !.query_start = MapOpt(@, old_username_end, new_username_end),
                  !.fragment_start = MapOpt(@, old_username_end, new_username_end)])

\* set_scheme_internal without the adjustment of the offsets after the scheme
set_scheme_internal_unadjusted(u, new_scheme, allow_extra_input_after_colon, dbg) ==
    LET parsed == parse_scheme(new_scheme)
    IN IF ~parsed.ok THEN Err(u)
       ELSE IF ~(parsed.remaining = <<>> \/ allow_extra_input_after_colon) THEN Err(u)
       ELSE IF ~SliceOk(u.serialization, u.scheme_end, len(u)) THEN Panic(u)
       ELSE Ok([u EXCEPT
                  !.serialization = parsed.serialization
                                    \o SliceFrom(u.serialization, u.scheme_end),
                  !.scheme_end = Len(parsed.serialization)])

set_scheme_internal(u, new_scheme, allow_extra_input_after_colon, dbg) ==
    LET parsed == parse_scheme(new_scheme)
        old_scheme_end == u.scheme_end
        new_scheme_end == Len(parsed.serialization)
    IN IF ~parsed.ok THEN Err(u)
       ELSE IF ~(parsed.remaining = <<>> \/ allow_extra_input_after_colon) THEN Err(u)
       ELSE IF ~SliceOk(u.serialization, old_scheme_end, len(u)) THEN Panic(u)
       ELSE IF dbg /\ (\/ AdjustOverflows(u.username_end, old_scheme_end, new_scheme_end)
                       \/ AdjustOverflows(u.host_start, old_scheme_end, new_scheme_end)
                       \/ AdjustOverflows(u.host_end, old_scheme_end, new_scheme_end)
                       \/ AdjustOverflows(u.path_start, old_scheme_end, new_scheme_end)
                       \/ OptOverflows(u.query_start, old_scheme_end, new_scheme_end)
                       \/ OptOverflows(u.fragment_start, old_scheme_end,
                                       new_scheme_end))
       THEN Panic(u)
       ELSE Ok([u EXCEPT
                  !.serialization = parsed.serialization
                                    \o SliceFrom(u.serialization, old_scheme_end),
                  !.scheme_end = new_scheme_end,
                  !.username_end = WrapAdjust(@, old_scheme_end, new_scheme_end),
                  !.host_start = WrapAdjust(@, old_scheme_end, new_scheme_end),
                  !.host_end = WrapAdjust(@, old_scheme_end, new_scheme_end),
                  !.path_start = WrapAdjust(@, old_scheme_end, new_scheme_end),
                  !.query_start = MapOpt(@, old_scheme_end, new_scheme_end),
                  !.fragment_start = MapOpt(@, old_scheme_end, new_scheme_end)])

set_scheme(u, new_scheme, dbg) == set_scheme_internal(u, new_scheme, FALSE, dbg)


----------------------------------------------------------------------------
(* Records the parser produces *)

\* The record of scheme ":" [ "//" userinfo host port ] path [ "?" query ]
\* [ "#" fragment ]: hst is None or Some([text, tag]).  Without a host every
\* authority offset is path_start (as from_file_path and set_host build it).
MkUrl(sch, user, pw, hst, prt, pth, q, f) ==
    LET has_userinfo == user # <<>> \/ IsSome(pw)
        head == sch \o <<":">> \o (IF IsSome(hst) THEN <<"/", "/">> ELSE <<>>)
        s_user == head \o (IF IsSome(hst) THEN user ELSE <<>>)
        s_pw == s_user \o (IF IsSome(pw) THEN <<":">> \o Get(pw) ELSE <<>>)
                       \o (IF has_userinfo THEN <<"@">> ELSE <<>>)
        s_host == s_pw \o (IF IsSome(hst) THEN Get(hst).text ELSE <<>>)
        s_port == s_host \o (IF IsSome(prt) THEN <<":">> \o Decimal(Get(prt)) ELSE <<>>)
        s_path == s_port \o pth
        s_query == s_path \o (IF IsSome(q) THEN <<"?">> \o Get(q) ELSE <<>>)
        s_all == s_query \o (IF IsSome(f) THEN <<"#">> \o Get(f) ELSE <<>>)
    IN [serialization |-> s_all,
        scheme_end |-> Len(sch),
        username_end |-> Len(s_user),
        host_start |-> Len(s_pw),
        host_end |-> Len(s_host),
        host |-> IF IsSome(hst) THEN Get(hst).tag ELSE HostNone,
        port |-> prt,
        path_start |-> Len(s_port),
        query_start |-> IF IsSome(q) THEN Some(Len(s_path)) ELSE None,
        fragment_start |-> IF IsSome(f) THEN Some(Len(s_query)) ELSE None]

Domain(text) == Some([text |-> text, tag |-> HostDomain])
\* the empty host of file:///path: the authority is there, the host tag is None
EmptyHost == Some([text |-> <<>>, tag |-> HostNone])

S_http == <<"h", "t", "t", "p">>
S_file == <<"f", "i", "l", "e">>
S_data == <<"d", "a", "t", "a">>
S_foo == <<"f", "o", "o">>
S_ws == <<"w", "s">>

\* parse("http://user:pw@h:81/p?q#f")
UrlScenario ==
    MkUrl(S_http, <<"u", "s", "e", "r">>, Some(<<"p", "w">>), Domain(<<"h">>), Some(81),
          <<"/", "p">>, Some(<<"q">>), Some(<<"f">>))

\* parse("http://servo.github.io/rust-url/url/index.html")
UrlDocument ==
    MkUrl(S_http, <<>>, None,
          Domain(<<"s", "e", "r", "v", "o", ".", "g", "i", "t", "h", "u", "b", ".", "i", "o">>),
          None,
          <<"/", "r", "u", "s", "t", "-", "u", "r", "l", "/", "u", "r", "l", "/", "i", "n", "d", "e", "x", ".", "h", "t", "m", "l">>,
          None, None)

ParsedUrls ==
    { UrlScenario,
      \* http://h/p
      MkUrl(S_http, <<>>, None, Domain(<<"h">>), None, <<"/", "p">>, None, None),
      \* http://h/a/b?q
      MkUrl(S_http, <<>>, None, Domain(<<"h">>), None, <<"/", "a", "/", "b">>,
            Some(<<"q">>), None),
      \* http://u@h:81/#f
      MkUrl(S_http, <<"u">>, None, Domain(<<"h">>), Some(81), <<"/">>, None,
            Some(<<"f">>)),
      \* http://:pw@h/pp?q
      MkUrl(S_http, <<>>, Some(<<"p", "w">>), Domain(<<"h">>), None, <<"/", "p", "p">>,
            Some(<<"q">>), None),
      \* foo://h/p#f
      MkUrl(S_foo, <<>>, None, Domain(<<"h">>), None, <<"/", "p">>, None, Some(<<"f">>)),
      \* foo:/p?q#f
      MkUrl(S_foo, <<>>, None, None, None, <<"/", "p">>, Some(<<"q">>), Some(<<"f">>)),
      \* file:///p
      MkUrl(S_file, <<>>, None, EmptyHost, None, <<"/", "p">>, None, None),
      \* data:x
      MkUrl(S_data, <<>>, None, None, None, <<"x">>, None, None),
      \* data:x/y?q#f
      MkUrl(S_data, <<>>, None, None, None, <<"x", "/", "y">>, Some(<<"q">>),
            Some(<<"f">>)),
      \* data:#f
      MkUrl(S_data, <<>>, None, None, None, <<>>, None, Some(<<"f">>)),
      \* data:
      MkUrl(S_data, <<>>, None, None, None, <<>>, None, None),
      \* foo://h:80/p
      MkUrl(S_foo, <<>>, None, Domain(<<"h">>), Some(80), <<"/", "p">>, None, None) }

----------------------------------------------------------------------------
(* Arguments of the setter calls *)

SchemeArgs == { S_ws, S_file, <<"F", "o", "o", ":">>, <<"1">>, <<"a", ":", "b">> }
UsernameArgs == { <<>>, <<"u">>, <<"a", "@">> }
PasswordArgs == { None, Some(<<>>), Some(<<"p">>) }
HostArgs == { None, Some(<<"X">>), Some(<<>>), Some(<<"a", "/">>) }
Ipv4Args == { <<1, 2, 3, 4>> }
Ipv6Args == { 1 }
PortArgs == { None, Some(80), Some(81), Some(8) }
PathArgs == { <<>>, <<"/", "a">>, <<"b", "/", ".", ".">>, <<":", "x">>,
              <<"/", "/", "x">> }
SegmentArgs == { <<"a">>, <<>>, <<"b", "/">> }
QueryArgs == { None, Some(<<>>), Some(<<"r">>) }
FragmentArgs == { None, Some(<<>>), Some(<<"g">>) }

----------------------------------------------------------------------------
(* The state machine: a parsed record, then setter calls *)

NoOp == [name |-> "parse", arg |-> <<>>]

\* the calls made on UrlScenario, in order
ScenarioCalls ==
    << [name |-> "set_port", arg |-> Some(80)],
       [name |-> "set_password", arg |-> None],
       [name |-> "set_username", arg |-> <<>>] >>

Init ==
    /\ url \in ParsedUrls
    /\ prev = url
    /\ op = NoOp
    /\ res = "New"
    /\ steps = 0
    /\ limit = MaxSteps
    /\ on_scenario = (url = UrlScenario)
    /\ debug_assertions \in BOOLEAN

\* the scenario of one record, followed further
InitScenario ==
    /\ url = UrlScenario
    /\ prev = url
    /\ op = NoOp
    /\ res = "New"
    /\ steps = 0
    /\ limit = ScenarioSteps
    /\ on_scenario = TRUE
    /\ debug_assertions \in BOOLEAN

\* parse("foo:/p?q#f"): a relative URL without a host
UrlHostless ==
    MkUrl(S_foo, <<>>, None, None, None, <<"/", "p">>, Some(<<"q">>), Some(<<"f">>))

\* the calls made on one hostless record, followed further
InitHostless ==
    /\ url = UrlHostless
    /\ prev = url
    /\ op = NoOp
    /\ res = "New"
    /\ steps = 0
    /\ limit = HostlessSteps
    /\ on_scenario = FALSE
    /\ debug_assertions \in BOOLEAN

\* the index (1-based) of the first character of input that is in cs, or
\* Len(input) + 1
FirstOf(input, cs) ==
    IF \A i \in 1..Len(input) : input[i] \notin cs THEN Len(input) + 1
    ELSE CHOOSE k \in 1..Len(input) :
             input[k] \in cs /\ \A j \in 1..(k - 1) : input[j] \notin cs

\* the parts of a reference: the path runs to the first '?' or '#', the query
\* from '?' to '#', the fragment from '#' to the end
RefPath(input) == SubSeq(input, 1, FirstOf(input, {"?", "#"}) - 1)
RefQuery(input) ==
    LET a == FirstOf(input, {"?", "#"})
    IN IF a <= Len(input) /\ input[a] = "?"
       THEN Some(SubSeq(input, a + 1, FirstOf(input, {"#"}) - 1))
       ELSE None
RefFragment(input) ==
    LET h == FirstOf(input, {"#"})
    IN IF h <= Len(input) THEN Some(SubSeq(input, h + 1, Len(input))) ELSE None

ParseOk(u) == [ok |-> TRUE, url |-> u, err |-> ""]
ParseErr(e) == [ok |-> FALSE, url |-> <<>>, err |-> e]

\* parser, states Query and Fragment: the record that inherits from base all
\* that lies before ser's end, with the query q and the fragment f appended
with_query_and_fragment(base, ser, q, f) ==
    LET s_q == IF IsSome(q) THEN parse_query(ser \o <<"?">>, Get(q)) ELSE ser
        s_f == IF IsSome(f) THEN parse_fragment(s_q \o <<"#">>, Get(f)) ELSE s_q
    IN [base EXCEPT !.serialization = s_f,
                    !.query_start = IF IsSome(q) THEN Some(Len(ser)) ELSE None,
                    !.fragment_start = IF IsSome(f) THEN Some(Len(s_q)) ELSE None]

\* the base has an opaque path (it cannot be a base)
base_non_relative(base) ==
    ~StartsWith(Slice(base.serialization, base.path_start, path_end(base)), <<"/">>)

\* relative resolution that keeps the last segment of the base path
parse_relative_keep_last(base, input) ==
    LET through_path == Slice(base.serialization, 0, path_end(base))
    IN ParseOk(with_query_and_fragment(base,
           parse_path(through_path \o <<"/">>, base.path_start, RefPath(input), FALSE),
           RefQuery(input), RefFragment(input)))

\* parser, relative resolution: the input has no scheme and there is a base.
\* (References beginning with "//", which carry an authority of their own,
\* and the empty reference are not among the inputs drawn.)
parse_relative(base, input) ==
    LET p == RefPath(input)
        q == RefQuery(input)
        f == RefFragment(input)
        before_path == Slice(base.serialization, 0, base.path_start)
        through_path == Slice(base.serialization, 0, path_end(base))
        before_fragment ==
            IF IsSome(base.fragment_start)
            THEN Slice(base.serialization, 0, Get(base.fragment_start))
            ELSE base.serialization
    IN CASE StartsWith(input, <<"#">>) ->
                ParseOk([base EXCEPT
                    !.serialization = parse_fragment(before_fragment \o <<"#">>, Get(f)),
                    !.fragment_start = Some(Len(before_fragment))])
         [] ~StartsWith(input, <<"#">>) /\ base_non_relative(base) ->
                ParseErr("RelativeUrlWithCannotBeABaseBase")
         [] StartsWith(input, <<"/">>) /\ ~base_non_relative(base) ->
                ParseOk(with_query_and_fragment(base,
                            parse_path_start(before_path, p), q, f))
         [] StartsWith(input, <<"?">>) /\ ~base_non_relative(base) ->
                ParseOk(with_query_and_fragment(base, through_path, q, f))
         [] OTHER ->
                ParseOk(with_query_and_fragment(base,
                            parse_path(pop_path(through_path, base.path_start),
                                       base.path_start, p, FALSE),
                            q, f))

\* the input begins with a scheme and its ':'
has_scheme(input) == parse_scheme(input).ok /\ SchemeStop(input) <= Len(input)

\* Parser::parse_url: base is None or Some(url).  An input with a scheme is
\* absolute; the absolute inputs drawn are serializations of the records
\* written out above.
parse_url(base, input) ==
    IF has_scheme(input)
    THEN ParseOk(CHOOSE u \in ParsedUrls \cup {UrlDocument} : u.serialization = input)
    ELSE IF base = None THEN ParseErr("RelativeUrlWithoutBase")
    ELSE parse_relative(Get(base), input)

\* Url::parse_with
parse_with(input, base_url) == parse_url(base_url, input)
\* Url::parse
parse(input) == parse_with(input, None)
\* Url::join
join(self, input) == parse_with(input, Some(self))

ReferenceArgs ==
    { <<".", ".", "/", "m", "a", "i", "n", ".", "c", "s", "s">>, <<".", "/", "g">>, <<"/", "r">>, <<"?", "y">>, <<"#", "z">> }
ParseArgs ==
    { <<".", ".", "/", "m", "a", "i", "n", ".", "c", "s", "s">>,
      <<"h", "t", "t", "p", ":", "/", "/", "s", "e", "r", "v", "o", ".", "g", "i", "t", "h", "u", "b", ".", "i", "o", "/", "r", "u", "s", "t", "-", "u", "r", "l", "/", "u", "r", "l", "/", "i", "n", "d", "e", "x", ".", "h", "t", "m", "l">> }

\* std::path::Path values: whether the path is absolute, and its components
\* after the root (Path::components() drops "." and repeated or trailing
\* separators)
AbsPath(components) == [absolute |-> TRUE, components |-> components]
RelPath(components) == [absolute |-> FALSE, components |-> components]
FilePaths ==
    { AbsPath(<<>>),                          \* "/"
      AbsPath(<< <<"a">> >>),                 \* "/a"
      AbsPath(<< <<"a">>, <<"b", " ">> >>),   \* "/a/b "
      RelPath(<< <<"a">> >>) }                \* "a"

\* path_to_file_url_segments (unix): None for Err(()), else the serialization
\* with "/" and the encoded component appended for each component
RECURSIVE push_components(_, _)
push_components(serialization, components) ==
    IF components = <<>> THEN serialization
    ELSE push_components(
             serialization \o <<"/">>
                 \o utf8_percent_encode(Head(components), PATH_SEGMENT_ENCODE_SET),
             Tail(components))

path_to_file_url_segments(path_, serialization) ==
    IF ~path_.absolute THEN None
    ELSE Some(push_components(serialization, path_.components))

\* Url::from_file_path: None for Err(()), else Some(url)
from_file_path(path_) ==
    LET serialization == S_file \o <<":", "/", "/">>
        path_start == Len(serialization)
        pushed == path_to_file_url_segments(path_, serialization)
    IN IF pushed = None THEN None
       ELSE Some([serialization |-> Get(pushed),
                  scheme_end |-> Len(S_file),
                  username_end |-> path_start,
                  host_start |-> path_start,
                  host_end |-> path_start,
                  host |-> HostNone,
                  port |-> None,
                  path_start |-> path_start,
                  query_start |-> None,
                  fragment_start |-> None])

\* Url::from_directory_path
from_directory_path(path_) ==
    LET made == from_file_path(path_)
    IN IF made = None THEN None
       ELSE LET u == Get(made)
            IN Some(IF ~EndsWith(u.serialization, <<"/">>)
                    THEN [u EXCEPT !.serialization = @ \o <<"/">>]
                    ELSE u)

\* the offsets the resolution slices at are in order and inside the
\* serialization
OffsetsInRange(u) ==
    /\ 0 <= u.path_start
    /\ u.path_start <= path_end(u)
    /\ path_end(u) <= len(u)
    /\ IsSome(u.fragment_start) =>
           (0 <= Get(u.fragment_start) /\ Get(u.fragment_start) <= len(u))

\* a setter call returned (or panicked) with `out`
Call(name, arg, out) ==
    /\ res # "Panic"
    /\ steps < limit
    /\ url' = out.u
    /\ prev' = url
    /\ op' = [name |-> name, arg |-> arg]
    /\ res' = out.r
    /\ steps' = steps + 1
    /\ on_scenario' = (/\ on_scenario
                       /\ steps < Len(ScenarioCalls)
                       /\ name = ScenarioCalls[steps + 1].name
                       /\ arg = ScenarioCalls[steps + 1].arg)
    /\ UNCHANGED <<limit, debug_assertions>>

SetScheme == \E a \in SchemeArgs : Call("set_scheme", a, set_scheme(url, a, debug_assertions))
SetUsername ==
    \E a \in UsernameArgs : Call("set_username", a, set_username(url, a, debug_assertions))
SetPassword ==
    \E a \in PasswordArgs : Call("set_password", a, set_password(url, a, debug_assertions))
SetHost == \E a \in HostArgs : Call("set_host", a, set_host(url, a, debug_assertions))
SetIpv4Host ==
    \E a \in Ipv4Args : Call("set_ipv4_host", a, set_ipv4_host(url, a, debug_assertions))
SetIpv6Host ==
    \E a \in Ipv6Args : Call("set_ipv6_host", a, set_ipv6_host(url, a, debug_assertions))
SetPort == \E a \in PortArgs : Call("set_port", a, set_port(url, a, debug_assertions))
\* the URL's own path, as an argument for set_path(u.path())
OwnPath(u) == IF path_panics(u) THEN {} ELSE {path(u)}
SetPath ==
    \E a \in PathArgs \cup OwnPath(url) :
        Call("set_path", a, set_path(url, a, debug_assertions))
PushPathSegment ==
    \E a \in SegmentArgs :
        Call("push_path_segment", a, push_path_segment(url, a, debug_assertions))
PopPathSegment == Call("pop_path_segment", <<>>, pop_path_segment(url, debug_assertions))
SetQuery == \E a \in QueryArgs : Call("set_query", a, set_query(url, a, debug_assertions))
SetFragment ==
    \E a \in FragmentArgs : Call("set_fragment", a, set_fragment(url, a, debug_assertions))

\* a constructor call: on Ok the variable holds the new URL, on Err it keeps
\* the one it had.  What a constructor returns does not depend on the record
\* held before, so the constructors are called first.
Made(made) == IF made = None THEN Err(url) ELSE Ok(Get(made))
FromFilePath ==
    /\ steps = 0
    /\ \E p \in FilePaths : Call("from_file_path", p, Made(from_file_path(p)))
FromDirectoryPath ==
    /\ steps = 0
    /\ \E p \in FilePaths : Call("from_directory_path", p, Made(from_directory_path(p)))

\* a parse returned: on Ok the variable holds the new URL, on Err it keeps the
\* one it had
Parsed(out) == IF out.ok THEN Ok(out.url) ELSE Err(url)
Parse ==
    /\ steps = 0
    /\ \E a \in ParseArgs : Call("parse", a, Parsed(parse(a)))
\* the specification gives the resolution for a base whose offsets are in
\* order
Join ==
    /\ OffsetsInRange(url)
    /\ \E a \in ReferenceArgs : Call("join", a, Parsed(join(url, a)))

Next ==
    \/ Parse
    \/ Join
    \/ FromFilePath
    \/ FromDirectoryPath
    \/ SetScheme
    \/ SetUsername
    \/ SetPassword
    \/ SetHost
    \/ SetIpv4Host
    \/ SetIpv6Host
    \/ SetPort
    \/ SetPath
    \/ PushPathSegment
    \/ PopPathSegment
    \/ SetQuery
    \/ SetFragment

Spec == Init /\ [][Next]_vars
SpecScenario == InitScenario /\ [][Next]_vars
SpecHostless == InitHostless /\ [][Next]_vars


----------------------------------------------------------------------------
(* Properties *)

\* the last call was `name` with argument `arg`
Called(name, arg) == op.name = name /\ op.arg = arg

\* prev could be asked non_relative() and has_host()
PrevSound == ~non_relative_panics(prev) /\ ~has_host_panics(prev, debug_assertions)

\* the offsets in order, absent optionals skipped
OffsetsOrdered(u) ==
    LET chain == <<0, u.scheme_end + 1, u.username_end, u.host_start, u.host_end,
                   u.path_start>> \o u.query_start \o u.fragment_start \o <<len(u)>>
    IN /\ u.scheme_end >= 0
       /\ \A i \in 1..(Len(chain) - 1) : chain[i] >= 0 /\ chain[i] <= chain[i + 1]

\* C1: in every state reached from a parsed record by setter calls,
\* 0 <= scheme_end < username_end <= host_start <= host_end <= path_start
\* <= query_start <= fragment_start <= len(serialization), absent optionals
\* skipped.
C1_OffsetsOrdered == OffsetsOrdered(url)

\* C2: no setter call panics, and no accessor panics on a record that setter
\* calls have left.
C2_NoPanic == res # "Panic" /\ ~AccessorPanics(url, debug_assertions)

\* C3: from parse("http://user:pw@h:81/p?q#f"), set_port(Some(80)) gives
\* "http://user:pw@h/p?q#f", then set_password(None) gives "http://user@h/p?q#f",
\* then set_username("") gives "http://h/p?q#f".
C3_Scenario ==
    on_scenario =>
        /\ res # "Panic"
        /\ steps = 1 => as_str(url) = S_http \o
               <<":", "/", "/", "u", "s", "e", "r", ":", "p", "w", "@", "h", "/", "p",
                 "?", "q", "#", "f">>
        /\ steps = 2 => as_str(url) = S_http \o
               <<":", "/", "/", "u", "s", "e", "r", "@", "h", "/", "p", "?", "q", "#",
                 "f">>
        /\ steps = 3 => as_str(url) = S_http \o
               <<":", "/", "/", "h", "/", "p", "?", "q", "#", "f">>

\* the last call is one the claim lists as refused
ListedRefusal ==
    \/ op.name \in {"push_path_segment", "pop_path_segment", "set_host",
                    "set_ipv4_host", "set_ipv6_host"} /\ non_relative(prev)
    \/ op.name = "set_host" /\ IsSome(op.arg) /\ ~host_parse(Get(op.arg)).ok
    \/ op.name \in {"set_username", "set_password"} /\ ~has_host(prev)
    \/ op.name = "set_port" /\ (~has_host(prev) \/ scheme(prev) = S_file)
    \/ op.name = "set_scheme" /\ ~parse_scheme(op.arg).ok

C5_SchemeSwitchRefused ==
    (/\ op.name = "set_scheme"
     /\ ~non_relative_panics(prev)
     /\ non_relative(prev)
     /\ parse_scheme(op.arg).ok
     /\ IsSome(default_port(parse_scheme(op.arg).serialization)))
        => (res = "Err" /\ url = prev)

\* C6: set_host(None) on a relative URL that has a host returns Ok and removes
\* the authority: no host, empty username, no password, no port, the
\* serialization scheme ":" path query fragment, and path, query and fragment
\* as before.
C6_RemoveHost ==
    (/\ Called("set_host", None)
     /\ PrevSound
     /\ ~non_relative(prev)
     /\ has_host(prev))
        => /\ res = "Ok"
           /\ ~has_host(url)
           /\ host(url) = None
           /\ host_str(url) = None
           /\ username(url) = <<>>
           /\ ~password_panics(url, debug_assertions) /\ password(url) = None
           /\ port(url) = None
           /\ as_str(url) = scheme(prev) \o <<":">>
                            \o SliceFrom(prev.serialization, prev.path_start)
           /\ path(url) = path(prev)
           /\ query(url) = query(prev)
           /\ fragment(url) = fragment(prev)

\* C7: after set_port(p) returns Ok, port() is None if p is None or the
\* default port of the scheme, and p otherwise.
C7_PortAfterSetPort ==
    (op.name = "set_port" /\ res = "Ok")
        => port(url) = (IF op.arg = None \/ op.arg = default_port(scheme(url))
                        THEN None ELSE op.arg)

\* C8: if port() is None then path_start = host_end, and if port() is
\* Some(n) the bytes host_end..path_start are ":" and the decimal digits of n.
C8_PortSpan ==
    IF port(url) = None THEN url.path_start = url.host_end
    ELSE /\ SliceOk(url.serialization, url.host_end, url.path_start)
         /\ Slice(url.serialization, url.host_end, url.path_start)
                = <<":">> \o Decimal(Get(port(url)))

\* C9: query_start, if present, is the index of a '?' and fragment_start, if
\* present, the index of a '#'.
C9_QueryFragmentMarks ==
    /\ IsSome(url.query_start) => byte_or_none(url, Get(url.query_start)) = "?"
    /\ IsSome(url.fragment_start) => byte_or_none(url, Get(url.fragment_start)) = "#"

\* C10: if the byte at username_end is ':' (password() is present) then the
\* URL has a host and the byte before host_start is '@'.
C10_PasswordShape ==
    byte_or_none(url, url.username_end) = ":"
        => (has_host(url) /\ byte_or_none(url, url.host_start - 1) = "@")

----------------------------------------------------------------------------
(* Userinfo and port: C11 - C15 *)

\* every accessor can be asked of the record the call started from
PrevReadable == ~AccessorPanics(prev, debug_assertions)

\* C11: on a URL without a host username() is "" and password() is None
\* (returned, not panicked), also when the opaque path begins with ':' and
\* after set_path.
C11_HostlessUserinfo ==
    (~has_host_panics(url, debug_assertions) /\ ~has_host(url))
        => /\ username(url) = <<>>
           /\ ~password_panics(url, debug_assertions)
           /\ password(url) = None

\* the bytes between "//" and the host are username[:password]@, and nothing
\* at all when the username is empty and there is no password
AuthorityShape(u) ==
    LET username_start == u.scheme_end + 3 IN
    /\ has_host(u)
    /\ username_start <= u.username_end
    /\ u.username_end <= u.host_start
    /\ u.host_start <= len(u)
    /\ u.username_end = u.host_start => u.username_end = username_start
    /\ u.username_end < u.host_start =>
           /\ byte_or_none(u, u.host_start - 1) = "@"
           /\ u.username_end = u.host_start - 1 \/ byte_or_none(u, u.username_end) = ":"
           /\ u.host_start - 1 > username_start
    /\ \A i \in username_start..(u.username_end - 1) :
           byte_or_none(u, i) \notin {":", "@", "/"}

\* C12: after set_username or set_password returns Ok the authority is
\* username[:password]@host, with no '@' (host_start = scheme_end + 3) when
\* the username is empty and no password is present.
C12_UserinfoShape ==
    (op.name \in {"set_username", "set_password"} /\ res = "Ok")
        => AuthorityShape(url)

\* an accessor returns after the call what it returned before it
HostStrKept ==
    ~host_str_panics(url, debug_assertions) /\ host_str(url) = host_str(prev)
PathKept == ~path_panics(url) /\ path(url) = path(prev)
QueryKept == ~query_panics(url, debug_assertions) /\ query(url) = query(prev)
FragmentKept ==
    ~fragment_panics(url, debug_assertions) /\ fragment(url) = fragment(prev)
UsernameKept ==
    ~username_panics(url, debug_assertions) /\ username(url) = username(prev)
PasswordKept ==
    ~password_panics(url, debug_assertions) /\ password(url) = password(prev)
SchemeKept == ~scheme_panics(url) /\ scheme(url) = scheme(prev)

\* C13: set_username returning Ok leaves host_str(), port(), path(), query()
\* and fragment() as they were, with or without userinfo before the call.
C13_SetUsernameFrame ==
    (op.name = "set_username" /\ res = "Ok" /\ PrevReadable)
        => /\ HostStrKept
           /\ port(url) = port(prev)
           /\ PathKept
           /\ QueryKept
           /\ FragmentKept

\* C14: set_password returning Ok, with None or Some, leaves username(),
\* host_str(), port(), path(), query() and fragment() as they were.
C14_SetPasswordFrame ==
    (op.name = "set_password" /\ res = "Ok" /\ PrevReadable)
        => /\ UsernameKept
           /\ HostStrKept
           /\ port(url) = port(prev)
           /\ PathKept
           /\ QueryKept
           /\ FragmentKept

\* C15: set_port returning Ok leaves scheme(), username(), password(),
\* host_str(), path(), query() and fragment() as they were, and scheme_end,
\* username_end, host_start and host_end unchanged.
C15_SetPortFrame ==
    (op.name = "set_port" /\ res = "Ok" /\ PrevReadable)
        => /\ SchemeKept
           /\ UsernameKept
           /\ PasswordKept
           /\ HostStrKept
           /\ PathKept
           /\ QueryKept
           /\ FragmentKept
           /\ url.scheme_end = prev.scheme_end
           /\ url.username_end = prev.username_end
           /\ url.host_start = prev.host_start
           /\ url.host_end = prev.host_end

----------------------------------------------------------------------------
(* Query and fragment: C16, C17 *)

HostKept == ~host_panics(url) /\ host(url) = host(prev)

\* where the query of prev starts, or would start
OldQueryPos ==
    IF IsSome(prev.query_start) THEN Get(prev.query_start) ELSE query_end(prev)

\* C16: set_query, with None or Some, on a record whose fragment() can be
\* read, returns, leaves fragment() as it was and leaves every byte of the
\* serialization before the old query position unchanged.
C16_SetQueryFragment ==
    (op.name = "set_query" /\ ~fragment_panics(prev, debug_assertions))
        => /\ res = "Ok"
           /\ FragmentKept
           /\ SliceOk(url.serialization, 0, OldQueryPos)
           /\ Slice(url.serialization, 0, OldQueryPos)
                  = Slice(prev.serialization, 0, OldQueryPos)

\* where the fragment of prev starts, or the end of its serialization
OldFragmentPos ==
    IF IsSome(prev.fragment_start) THEN Get(prev.fragment_start) ELSE len(prev)

\* C17: on a record whose fragment() can be read, set_fragment returns; after
\* set_fragment(None) fragment() is None and the serialization is the old one
\* cut at the old '#'; after set_fragment(Some(f)) fragment() is Some of the
\* encoded f, Some("") for f = "", never None; and scheme(), username(),
\* password(), host_str(), host(), port(), path() and query() return what they
\* returned before, each one that could be read before.
C17_SetFragment ==
    (op.name = "set_fragment" /\ ~fragment_panics(prev, debug_assertions))
        => /\ res = "Ok"
           /\ ~fragment_panics(url, debug_assertions)
           /\ op.arg = None =>
                  /\ fragment(url) = None
                  /\ as_str(url) = Slice(prev.serialization, 0, OldFragmentPos)
           /\ op.arg # None =>
                  /\ fragment(url) = Some(parse_fragment(<<>>, Get(op.arg)))
                  /\ fragment(url) # None
                  /\ as_str(url) = Slice(prev.serialization, 0, OldFragmentPos)
                                   \o <<"#">> \o Get(fragment(url))
           /\ ~scheme_panics(prev) => SchemeKept
           /\ ~username_panics(prev, debug_assertions) => UsernameKept
           /\ ~password_panics(prev, debug_assertions) => PasswordKept
           /\ ~host_str_panics(prev, debug_assertions) => HostStrKept
           /\ ~host_panics(prev) => HostKept
           /\ port(url) = port(prev)
           /\ ~path_panics(prev) => PathKept
           /\ ~query_panics(prev, debug_assertions) => QueryKept

----------------------------------------------------------------------------
(* The path: C18 - C20 *)

\* the call was made on a relative URL whose path, query and fragment can be
\* read
RelativePrev ==
    /\ ~non_relative_panics(prev)
    /\ ~non_relative(prev)
    /\ ~path_panics(prev)
    /\ ~query_panics(prev, debug_assertions)
    /\ ~fragment_panics(prev, debug_assertions)

\* the bytes before the path are those of prev
BeforePathKept ==
    /\ url.path_start = prev.path_start
    /\ SliceOk(url.serialization, 0, url.path_start)
    /\ Slice(url.serialization, 0, url.path_start)
           = Slice(prev.serialization, 0, prev.path_start)

\* C18: push_path_segment(s) on a relative URL returns Ok, appends exactly one
\* segment (s, encoded) to the end of the path, and leaves query(), fragment()
\* and everything before the path unchanged.
C18_PushPathSegment ==
    (op.name = "push_path_segment" /\ RelativePrev)
        => /\ res = "Ok"
           /\ ~path_panics(url)
           /\ path_segments(url)
                  = Some(Append(Get(path_segments(prev)),
                                utf8_percent_encode(op.arg, PATH_SEGMENT_ENCODE_SET)))
           /\ QueryKept
           /\ FragmentKept
           /\ BeforePathKept

\* the segments left when the last one is removed; the root keeps its one
\* empty segment
WithoutLast(segments) ==
    IF Len(segments) <= 1 THEN << <<>> >>
    ELSE SubSeq(segments, 1, Len(segments) - 1)

\* C19: pop_path_segment on a relative URL returns Ok, path_segments() loses
\* its last element (also for a path of one segment such as "/a"), the root
\* "/" is left as it is, and query() and fragment() are unchanged.
C19_PopPathSegment ==
    (op.name = "pop_path_segment" /\ RelativePrev)
        => /\ res = "Ok"
           /\ ~path_panics(url)
           /\ path_segments(url) = Some(WithoutLast(Get(path_segments(prev))))
           /\ path(prev) = <<"/">> => url = prev
           /\ QueryKept
           /\ FragmentKept

\* C20: set_path(p) returns and non_relative() is afterwards what it was
\* before, for every p; on a non-relative URL a leading '/' of p is written
\* as "%2F".
C20_SetPathKind ==
    (op.name = "set_path" /\ ~non_relative_panics(prev))
        => /\ res = "Ok"
           /\ ~non_relative_panics(url)
           /\ non_relative(url) = non_relative(prev)
           /\ (non_relative(prev) /\ StartsWith(op.arg, <<"/">>))
                  => /\ ~path_panics(url)
                     /\ StartsWith(path(url), <<"%", "2", "F">>)

----------------------------------------------------------------------------
(* Round trips, equality, hosts and ports: C21 - C25 *)

\* C21: on a parsed record, relative or not, with or without query and
\* fragment, set_path(u.path()) returns and leaves the serialization,
\* query_start and fragment_start as they were.
C21_SetOwnPath ==
    (/\ op.name = "set_path"
     /\ steps = 1
     /\ ~path_panics(prev)
     /\ op.arg = path(prev))
        => /\ res = "Ok"
           /\ as_str(url) = as_str(prev)
           /\ url.query_start = prev.query_start
           /\ url.fragment_start = prev.fragment_start

\* the bytes the records are made of, in ASCII order
AsciiOrder ==
    <<"#", "%", "+", "-", ".", "/", "0", "1", "2", "3", "4", "5", "6",
       "7", "8", "9", ":", "?", "@", "A", "B", "C", "D", "E", "F", "G",
       "H", "I", "J", "K", "L", "M", "N", "O", "P", "Q", "R", "S", "T",
       "U", "V", "W", "X", "Y", "Z", "[", "]", "a", "b", "c", "d", "e",
       "f", "g", "h", "i", "j", "k", "l", "m", "n", "o", "p", "q", "r",
       "s", "t", "u", "v", "w", "x", "y", "z" >>
ByteRank(c) == CHOOSE i \in 1..Len(AsciiOrder) : AsciiOrder[i] = c

\* str's Ord: byte-wise lexicographic comparison
str_cmp(a, b) ==
    LET n == IF Len(a) < Len(b) THEN Len(a) ELSE Len(b)
    IN IF \A i \in 1..n : a[i] = b[i]
       THEN (IF Len(a) = Len(b) THEN "Equal"
             ELSE IF Len(a) < Len(b) THEN "Less" ELSE "Greater")
       ELSE LET k == CHOOSE i \in 1..n :
                         a[i] # b[i] /\ \A j \in 1..(i - 1) : a[j] = b[j]
            IN IF ByteRank(a[k]) < ByteRank(b[k]) THEN "Less" ELSE "Greater"

\* equality as a derived PartialEq would give it: field by field
eq_by_fields(self, other) == self = other

\* impl PartialEq for Url
eq(self, other) == self.serialization = other.serialization
\* impl Ord for Url
cmp(self, other) == str_cmp(self.serialization, other.serialization)
\* impl Hash for Url: what is fed to the hasher
hash(self) == self.serialization

\* the records url is compared with: the one it was before the call, and the
\* parsed "http://user:pw@h:81/p?q#f", "foo:/p?q#f" and "data:"
Others ==
    { prev, UrlScenario, UrlHostless,
      MkUrl(S_data, <<>>, None, None, None, <<>>, None, None) }

\* C22: two records are equal iff their serializations are byte-equal,
\* whatever their offsets, host tag and port are; cmp orders them as their
\* serializations, and equal records feed the hasher the same bytes.
C22_EqualityBySerialization ==
    \A other \in Others :
        /\ eq(url, other) <=> as_str(url) = as_str(other)
        /\ eq(other, url) <=> as_str(url) = as_str(other)
        /\ cmp(url, other) = str_cmp(as_str(url), as_str(other))
        /\ (cmp(url, other) = "Equal") <=> eq(url, other)
        /\ eq(url, other) => hash(url) = hash(other)
        /\ hash(url) = as_str(url)

\* C22 witness: a record equal to a parsed one, with the same serialization
\* and another query_start; and one that orders before another
C22_Witness ==
    /\ \E other \in Others \ {prev} :
           /\ as_str(url) = as_str(other)
           /\ url.query_start # other.query_start
           /\ eq(url, other)
    /\ \E other \in Others : cmp(url, other) = "Less"

\* C23: in every state path_segments() is None iff non_relative() is true
\* (both return), and a present path_segments() has at least one segment.
C23_PathSegmentsKind ==
    /\ ~non_relative_panics(url)
    /\ ~path_panics(url)
    /\ (path_segments(url) = None) <=> non_relative(url)
    /\ IsSome(path_segments(url)) => Len(Get(path_segments(url))) >= 1

\* the last call was one of the three host setters, given a host
HostSetterCalled ==
    \/ op.name = "set_host" /\ IsSome(op.arg)
    \/ op.name \in {"set_ipv4_host", "set_ipv6_host"}

\* the host the last call was given, as host() and host_str() show it
NewHost ==
    CASE op.name = "set_host" ->
            [tag |-> "Domain", addr |-> host_parse(Get(op.arg)).text]
      [] op.name = "set_ipv4_host" -> HostIpv4(op.arg)
      [] OTHER -> HostIpv6(op.arg)
NewHostText ==
    CASE op.name = "set_host" -> host_parse(Get(op.arg)).text
      [] op.name = "set_ipv4_host" -> ipv4_text(op.arg)
      [] OTHER -> ipv6_text(op.arg)

\* C24: after set_host(Some(h)), set_ipv4_host(a) or set_ipv6_host(a)
\* returned Ok on a relative URL, host() is the new host, host_str() its
\* canonical text, "//" follows the scheme's ':', and username(), password(),
\* port(), path(), query() and fragment() return what they returned before.
C24_SetHostSome ==
    (/\ HostSetterCalled
     /\ res = "Ok"
     /\ ~non_relative_panics(prev)
     /\ ~non_relative(prev))
        => /\ ~host_panics(url) /\ host(url) = Some(NewHost)
           /\ ~host_str_panics(url, debug_assertions)
           /\ host_str(url) = Some(NewHostText)
           /\ has_host(url)
           /\ ~username_panics(prev, debug_assertions) => UsernameKept
           /\ ~password_panics(prev, debug_assertions) => PasswordKept
           /\ port(url) = port(prev)
           /\ ~path_panics(prev) => PathKept
           /\ ~query_panics(prev, debug_assertions) => QueryKept
           /\ ~fragment_panics(prev, debug_assertions) => FragmentKept

\* C25: in every state port() is not Some(d) with d the default port of the
\* current scheme, also after set_scheme on a URL with an explicit port.
C25_NoDefaultPort ==
    (~scheme_panics(url) /\ IsSome(port(url)))
        => port(url) # default_port(scheme(url))

\* C26: from_directory_path of an absolute path (the root included) returns a
\* file URL that is relative, whose path starts and ends with "/", and whose
\* offsets satisfy the record invariants.
C26_FromDirectoryPath ==
    (op.name = "from_directory_path" /\ op.arg.absolute)
        => /\ res = "Ok"
           /\ scheme(url) = S_file
           /\ ~non_relative_panics(url)
           /\ ~non_relative(url)
           /\ StartsWith(path(url), <<"/">>)
           /\ EndsWith(path(url), <<"/">>)
           /\ OffsetsOrdered(url)

\* the last segment of a path removed, its '/' kept
DropLastSegment(p) == SubSeq(p, 1, rfind(p, "/") + 1)

\* the segments with "." dropped and ".." taking the segment before it with
\* it; a final "." or ".." leaves an empty last segment
RECURSIVE CollapseDots(_, _)
CollapseDots(done, segments) ==
    IF segments = <<>> THEN done
    ELSE LET s == Head(segments)
             last == Len(segments) = 1
             kept == CASE s = <<".">> -> done
                       [] s = <<".", ".">> ->
                              IF done = <<>> THEN done
                              ELSE SubSeq(done, 1, Len(done) - 1)
                       [] OTHER -> Append(done, s)
         IN CollapseDots(IF last /\ s \in {<<".">>, <<".", ".">>}
                         THEN Append(kept, <<>>) ELSE kept,
                         Tail(segments))

RECURSIVE JoinSegments(_)
JoinSegments(segments) ==
    IF segments = <<>> THEN <<>>
    ELSE <<"/">> \o Head(segments) \o JoinSegments(Tail(segments))

\* a reference without scheme that does not begin with '/', '?' or '#'
PlainReference(input) ==
    input # <<>> /\ ~has_scheme(input) /\ Head(input) \notin {"/", "?", "#"}

\* C27: base.join(input) resolves a reference without scheme that does not
\* begin with '/', '?' or '#' by keeping the base's scheme and authority,
\* dropping the last segment of the base path, appending the input and
\* collapsing "." and ".."; "../main.css" joined onto
\* "http://servo.github.io/rust-url/url/index.html" gives
\* "http://servo.github.io/rust-url/main.css"; parse of such a reference
\* without a base fails with RelativeUrlWithoutBase.
C27_JoinRelative ==
    /\ (op.name = "join" /\ PlainReference(op.arg) /\ ~base_non_relative(prev))
           => /\ res = "Ok"
              /\ Slice(url.serialization, 0, url.path_start)
                     = Slice(prev.serialization, 0, prev.path_start)
              /\ url.scheme_end = prev.scheme_end
              /\ url.username_end = prev.username_end
              /\ url.host_start = prev.host_start
              /\ url.host_end = prev.host_end
              /\ url.path_start = prev.path_start
              /\ url.host = prev.host
              /\ url.port = prev.port
              /\ path(url) = JoinSegments(CollapseDots(<<>>,
                                 Split(Tail(DropLastSegment(path(prev))
                                                \o RefPath(op.arg)), "/")))
              /\ parse(op.arg) = ParseErr("RelativeUrlWithoutBase")
    /\ (op.name = "join" /\ prev = UrlDocument /\ op.arg = <<".", ".", "/", "m", "a", "i", "n", ".", "c", "s", "s">>)
           => /\ res = "Ok"
              /\ as_str(url) = <<"h", "t", "t", "p", ":", "/", "/", "s", "e", "r", "v", "o", ".", "g", "i", "t", "h", "u", "b", ".", "i", "o", "/", "r", "u", "s", "t", "-", "u", "r", "l", "/", "m", "a", "i", "n", ".", "c", "s", "s">>
    /\ (op.name = "parse" /\ res # "New" /\ PlainReference(op.arg))
           => /\ res = "Err"
              /\ url = prev
              /\ parse(op.arg).err = "RelativeUrlWithoutBase"

\* C27 witness: the documented join has been made
C27_Witness ==
    /\ op.name = "join"
    /\ op.arg = <<".", ".", "/", "m", "a", "i", "n", ".", "c", "s", "s">>
    /\ prev = UrlDocument
    /\ as_str(url) = <<"h", "t", "t", "p", ":", "/", "/", "s", "e", "r", "v", "o", ".", "g", "i", "t", "h", "u", "b", ".", "i", "o", "/", "r", "u", "s", "t", "-", "u", "r", "l", "/", "m", "a", "i", "n", ".", "c", "s", "s">>

\* C28: after set_query(None), query() is None (query_start is absent)
\* whether or not there was a query or a fragment before; after
\* set_query(Some(q)), query() is Some of the encoded q.
C28_SetQueryResult ==
    op.name = "set_query"
        => /\ res = "Ok"
           /\ ~query_panics(url, debug_assertions)
           /\ op.arg = None => (url.query_start = None /\ query(url) = None)
           /\ IsSome(op.arg)
                  => query(url) = Some(utf8_percent_encode(Get(op.arg), QUERY_ENCODE_SET))

\* the change in the length of the scheme made by the call
SchemeShift == url.scheme_end - prev.scheme_end
ShiftedOpt(old, new) ==
    IF IsSome(old) THEN new = Some(Get(old) + SchemeShift) ELSE new = None

\* s without a trailing ':'
WithoutColon(s) == IF EndsWith(s, <<":">>) THEN SubSeq(s, 1, Len(s) - 1) ELSE s

\* C29: after a successful set_scheme(s), scheme() is s lower-cased (without
\* a trailing ':'), the byte at scheme_end is ':', the serialization from
\* that ':' on is as before, and every other offset is shifted by the change
\* in scheme length.
C29_SetSchemeFrame ==
    (op.name = "set_scheme" /\ res = "Ok")
        => /\ ~scheme_panics(url)
           /\ scheme(url) = Lower(WithoutColon(op.arg))
           /\ byte_or_none(url, url.scheme_end) = ":"
           /\ SliceFrom(url.serialization, url.scheme_end)
                  = SliceFrom(prev.serialization, prev.scheme_end)
           /\ url.username_end = prev.username_end + SchemeShift
           /\ url.host_start = prev.host_start + SchemeShift
           /\ url.host_end = prev.host_end + SchemeShift
           /\ url.path_start = prev.path_start + SchemeShift
           /\ ShiftedOpt(prev.query_start, url.query_start)
           /\ ShiftedOpt(prev.fragment_start, url.fragment_start)

\* C29 witness: set_scheme("Foo:") made the scheme of a URL with a query and
\* a fragment one byte shorter
C29_Witness ==
    /\ op.name = "set_scheme"
    /\ op.arg = <<"F", "o", "o", ":">>
    /\ res = "Ok"
    /\ scheme(url) = S_foo
    /\ SchemeShift = 0 - 1
    /\ IsSome(prev.query_start)
    /\ IsSome(prev.fragment_start)
    /\ fragment(url) = fragment(prev)

\* C30: in every state reached from a parsed or from_file_path-made URL by
\* successful setter calls, has_host() implies that host_str() is non-empty
\* or that scheme() is "file".
C30_HostNonEmpty ==
    (/\ res \in {"New", "Ok"}
     /\ ~has_host_panics(url, debug_assertions)
     /\ has_host(url))
        => /\ ~host_str_panics(url, debug_assertions)
           /\ ~scheme_panics(url)
           /\ \/ (IsSome(host_str(url)) /\ Get(host_str(url)) # <<>>)
              \/ scheme(url) = S_file

\* the serialization put together again from what the accessors return
Userinfo(u) ==
    username(u)
        \o (IF IsSome(password(u)) THEN <<":">> \o Get(password(u)) ELSE <<>>)
        \o (IF username(u) # <<>> \/ IsSome(password(u)) THEN <<"@">> ELSE <<>>)
Authority(u) ==
    IF has_host(u)
    THEN <<"/", "/">> \o Userinfo(u) \o Get(host_str(u))
             \o (IF IsSome(port(u)) THEN <<":">> \o Decimal(Get(port(u))) ELSE <<>>)
    ELSE <<>>
FromAccessors(u) ==
    scheme(u) \o <<":">> \o Authority(u) \o path(u)
        \o (IF IsSome(query(u)) THEN <<"?">> \o Get(query(u)) ELSE <<>>)
        \o (IF IsSome(fragment(u)) THEN <<"#">> \o Get(fragment(u)) ELSE <<>>)

\* C31: in every reachable state the accessors partition the serialization:
\* scheme() ":" then, if has_host(), "//" userinfo host_str() and ":" port(),
\* then path(), "?" query() and "#" fragment() if present, is as_str().
C31_AccessorsPartition ==
    /\ ~AccessorPanics(url, debug_assertions)
    /\ FromAccessors(url) = as_str(url)

====
